---- MODULE Spec2Model ----
(***************************************************************************)
(* A model of the CodeLandscapeViewer analyzer (backend/analyzer): the     *)
(* Graph class, file discovery, the per-family extractors, the two import  *)
(* resolvers and the orchestrator analyze_repo.                            *)
(*                                                                         *)
(* Strings are sequences of tokens.  A token is an atom of text: a name    *)
(* ("a", "y", "js"), a separator ("/", ".", ":") or an id prefix           *)
(* ("file:", "module:").  "a/y.js" is <<"a", "/", "y", ".", "js">>.  The   *)
(* string operations of the code (startswith, endswith, replace, split,    *)
(* join, slicing, pathlib's join and normalisation) are computed on the    *)
(* tokens the way the code computes them on characters.                    *)
(***************************************************************************)
EXTENDS Integers, Sequences, FiniteSets, TLC

VARIABLES
    tree,       \* the directory tree under the root: a set of [dir, name]
    ignore,     \* the paths the .gitignore matcher answers "excluded" for
    stack,      \* os.walk: the directories still to visit, next one first
    files,      \* collect_files' list of file descriptors, in yield order
    nodes,      \* Graph.nodes: id -> Node
    edges,      \* Graph.edges: the list of Edge
    pc,         \* where analyze_repo (or the Graph client) stands
    idx,        \* loop index into the file list of the running loop
    output,     \* what to_dict returned (nodes with degree, edges)
    reads,      \* history: rel_path -> what reading/parsing that file gave
    log         \* history: the steps taken (calls made), in order, as [op, arg]

vars == <<tree, ignore, stack, files, nodes, edges, pc, idx, output, reads, log>>

(***************************************************************************)
(* Bounds of the model.                                                    *)
(***************************************************************************)
MaxFiles == 2       \* files in the directory tree
MaxIgnored == 1     \* paths the ignore matcher excludes
MaxItems == 2       \* imports, declarations and calls found in the files of the tree
MaxCalls == 3       \* Graph method calls made by the Graph client

(***************************************************************************)
(* Strings.                                                                *)
(***************************************************************************)
Empty == << >>

StartsWith(s, p) == Len(s) >= Len(p) /\ SubSeq(s, 1, Len(p)) = p

EndsWith(s, p) == Len(s) >= Len(p) /\ SubSeq(s, Len(s) - Len(p) + 1, Len(s)) = p

\* s[n:]
DropFirst(s, n) == SubSeq(s, n + 1, Len(s))

\* s[:-n]
DropLast(s, n) == SubSeq(s, 1, Len(s) - n)

\* s.replace(old, new) for a one-token old
RECURSIVE Replace(_, _, _)
Replace(s, old, new) ==
    IF s = Empty THEN Empty
    ELSE (IF Head(s) = old THEN new ELSE <<Head(s)>>) \o Replace(Tail(s), old, new)

\* s.split(sep) for a one-token sep: the list of pieces (never empty)
RECURSIVE Split(_, _)
Split(s, sep) ==
    IF s = Empty THEN <<Empty>>
    ELSE IF Head(s) = sep THEN <<Empty>> \o Split(Tail(s), sep)
    ELSE LET rest == Split(Tail(s), sep)
         IN  <<(<<Head(s)>> \o Head(rest))>> \o Tail(rest)

\* sep.join(parts)
RECURSIVE Join(_, _)
Join(parts, sep) ==
    IF parts = Empty THEN Empty
    ELSE IF Len(parts) = 1 THEN parts[1]
    ELSE parts[1] \o <<sep>> \o Join(Tail(parts), sep)

RECURSIVE SelectParts(_)
SelectParts(parts) ==
    IF parts = Empty THEN Empty
    ELSE (IF Head(parts) = Empty \/ Head(parts) = <<".">> THEN Empty ELSE <<Head(parts)>>)
         \o SelectParts(Tail(parts))

\* pathlib: the parts of a relative path ("" and "." segments are dropped, ".." is kept)
PathParts(s) == SelectParts(Split(s, "/"))

\* str(Path(s)) with posix separators
PathStr(s) == IF PathParts(s) = Empty THEN <<".">> ELSE Join(PathParts(s), "/")

\* str(Path(a) / b) for a relative b
PathJoin(a, b) == PathStr(a \o <<"/">> \o b)

\* str(Path(s).parent)
PathParent(s) ==
    LET p == PathParts(s)
    IN  IF Len(p) <= 1 THEN <<".">> ELSE Join(DropLast(p, 1), "/")

\* Path(name).suffix: from the last dot on, unless that dot leads or ends the name
RECURSIVE LastDot(_, _)
LastDot(s, i) == IF i = 0 THEN 0 ELSE IF s[i] = "." THEN i ELSE LastDot(s, i - 1)

Suffix(name) ==
    LET d == LastDot(name, Len(name))
    IN  IF d <= 1 \/ d = Len(name) THEN Empty ELSE SubSeq(name, d, Len(name))

\* Path(name).stem
Stem(name) == DropLast(name, Len(Suffix(name)))

Range(s) == {s[i] : i \in DOMAIN s}

\* all orders in which a set can be iterated
Perms(S) == {p \in [1..Cardinality(S) -> S] : Range(p) = S}

(***************************************************************************)
(* graph.py: Node, Edge and the Graph class.  A graph is a record          *)
(* [nodes, edges]; nodes is the dict id -> Node, edges the list of Edge.   *)
(* An Edge carries, beside its four fields, orig: the target it was        *)
(* created with (a history field: resolvers rewrite target in place).      *)
(***************************************************************************)
Node(id, label, type, file_path, line_number, metadata) ==
    [id |-> id, label |-> label, type |-> type, file_path |-> file_path,
     line_number |-> line_number, metadata |-> metadata]

Edge(source, target, type, metadata) ==
    [source |-> source, target |-> target, type |-> type, metadata |-> metadata,
     orig |-> target]

\* metadata is a record; this one is the empty dict
NoMetadata == [empty |-> TRUE]

EmptyGraph == [nodes |-> << >>, edges |-> << >>]

NodeIds(g) == DOMAIN g.nodes

\* add_node as it would be without the "not in" test: the later node overwrites
AddNodeOverwrite(g, n) == [g EXCEPT !.nodes = (n.id :> n) @@ g.nodes]


AddNode(g, n) ==
    IF n.id \in DOMAIN g.nodes THEN g
    ELSE [g EXCEPT !.nodes = g.nodes @@ (n.id :> n)]

\* add_edge as it would be if it tested the source alone
AddEdgeSourceOnly(g, e) ==
    IF e.source \in DOMAIN g.nodes
    THEN [g EXCEPT !.edges = Append(g.edges, e)]
    ELSE g


AddEdge(g, e) ==
    IF e.source \in DOMAIN g.nodes /\ e.target \in DOMAIN g.nodes
    THEN [g EXCEPT !.edges = Append(g.edges, e)]
    ELSE g

AddEdgeDeferred(g, e) == [g EXCEPT !.edges = Append(g.edges, e)]

RECURSIVE AddNodes(_, _)
AddNodes(g, ns) == IF ns = Empty THEN g ELSE AddNodes(AddNode(g, Head(ns)), Tail(ns))

\* other's nodes in its insertion order, then its edges appended
Merge(g, other, order) ==
    LET withNodes == AddNodes(g, [i \in DOMAIN order |-> other.nodes[order[i]]])
    IN  [withNodes EXCEPT !.edges = g.edges \o other.edges]

EdgeKey(e) == <<e.source, e.target, e.type>>

\* resolve_edges as it would be without the test of the target
RECURSIVE ValidEdgesNoTarget(_, _, _)
ValidEdgesNoTarget(es, node_ids, seen) ==
    IF es = Empty THEN Empty
    ELSE LET edge == Head(es)
             key == <<edge.source, edge.target, edge.type>>
         IN  IF edge.source \in node_ids /\ key \notin seen
             THEN <<edge>> \o ValidEdgesNoTarget(Tail(es), node_ids, seen \cup {key})
             ELSE ValidEdgesNoTarget(Tail(es), node_ids, seen)

\* resolve_edges as it would be if a duplicate replaced the edge kept before it
RECURSIVE ValidEdgesKeepLast(_, _, _)
ValidEdgesKeepLast(es, node_ids, seen) ==
    IF es = Empty THEN Empty
    ELSE LET edge == es[Len(es)]
             key == <<edge.source, edge.target, edge.type>>
             front == SubSeq(es, 1, Len(es) - 1)
         IN  IF edge.source \in node_ids /\ edge.target \in node_ids /\ key \notin seen
             THEN ValidEdgesKeepLast(front, node_ids, seen \cup {key}) \o <<edge>>
             ELSE ValidEdgesKeepLast(front, node_ids, seen)

RECURSIVE ValidEdges(_, _, _)
ValidEdges(es, node_ids, seen) ==
    IF es = Empty THEN Empty
    ELSE LET edge == Head(es)
             key == EdgeKey(edge)
         IN  IF edge.source \in node_ids /\ edge.target \in node_ids /\ key \notin seen
             THEN <<edge>> \o ValidEdges(Tail(es), node_ids, seen \cup {key})
             ELSE ValidEdges(Tail(es), node_ids, seen)

ResolveEdges(g) == [g EXCEPT !.edges = ValidEdges(g.edges, DOMAIN g.nodes, {})]

\* node_degree after the loop over the edges: +1 at the source, +1 at the target
RECURSIVE NodeDegree(_, _)
NodeDegree(es, nid) ==
    IF es = Empty THEN 0
    ELSE (IF Head(es).source = nid THEN 1 ELSE 0)
         + (IF Head(es).target = nid THEN 1 ELSE 0)
         + NodeDegree(Tail(es), nid)

ToDict(g) ==
    [nodes |-> [nid \in DOMAIN g.nodes |->
                   [node |-> g.nodes[nid], degree |-> NodeDegree(g.edges, nid)]],
     edges |-> g.edges,
     node_type_counts |->
         [t \in {g.nodes[nid].type : nid \in DOMAIN g.nodes} |->
             Cardinality({nid \in DOMAIN g.nodes : g.nodes[nid].type = t})],
     edge_type_counts |->
         [t \in {g.edges[i].type : i \in DOMAIN g.edges} |->
             Cardinality({i \in DOMAIN g.edges : g.edges[i].type = t})],
     stats |-> [total_nodes |-> Cardinality(DOMAIN g.nodes),
                total_edges |-> Len(g.edges)]]

(***************************************************************************)
(* orchestrator.py: file discovery.                                        *)
(***************************************************************************)
ALWAYS_SKIP_DIRS ==
    { <<".", "git">>, <<".", "hg">>, <<".", "svn">>, <<"__pycache__">>,
      <<"node_modules">>, <<".", "tox">>, <<".", "mypy_cache">>,
      <<".", "pytest_cache">>, <<".", "ruff_cache">>, <<"dist">>, <<"build">>,
      <<".", "eggs">>, <<"*", ".", "egg-info">>, <<".", "venv">>, <<"venv">>,
      <<"env">>, <<".", "env">>, <<".", "idea">>, <<".", "vscode">>,
      <<".", "cursor">>, <<"coverage">>, <<".", "next">>, <<".", "nuxt">> }

BINARY_EXTENSIONS ==
    { <<".", x>> : x \in
        { "png", "jpg", "jpeg", "gif", "bmp", "ico", "svg", "woff", "woff2", "ttf",
          "eot", "zip", "tar", "gz", "bz2", "rar", "7z", "exe", "dll", "so", "dylib",
          "pyc", "pyo", "class", "pdf", "doc", "docx", "xls", "xlsx", "mp3", "mp4",
          "avi", "mov", "wav", "db", "sqlite", "sqlite3", "lock" } }

PYTHON_EXTENSIONS == { <<".", "py">>, <<".", "pyi">> }

JS_EXTENSIONS == { <<".", x>> : x \in {"js", "jsx", "ts", "tsx", "mjs", "cjs"} }

_should_skip_dir(name) == name \in ALWAYS_SKIP_DIRS \/ StartsWith(name, <<".">>)

_is_binary(ext) == ext \in BINARY_EXTENSIONS

\* A tree entry is a file [dir, name]: dir the list of directory names from the
\* root down, name the file name.  The directories are those the files lie in.
GitignoreName == <<".", "gitignore">>

\* _load_gitignore: is there a .gitignore file at the root
HasGitignore(t) == \E f \in t : f.dir = Empty /\ f.name = GitignoreName

\* gitignore_spec.match_file(path), None when there is no .gitignore
Ignored(t, ign, path) == HasGitignore(t) /\ path \in ign

\* str(rel_dir): Path(dirpath).relative_to(root)
RelDir(dir) == IF dir = Empty THEN <<".">> ELSE Join(dir, "/")

\* str(rel_dir / name)
RelPath(dir, name) == PathJoin(RelDir(dir), name)

\* os.walk's dirnames and filenames of one directory
DirNames(t, dir) ==
    { f.dir[Len(dir) + 1] : f \in {h \in t : Len(h.dir) > Len(dir) /\ SubSeq(h.dir, 1, Len(dir)) = dir} }

FileNames(t, dir) == { f.name : f \in {h \in t : h.dir = dir} }

\* the pruning as it would be if the denylist were applied to the root's entries only
KeepDirRootOnly(t, ign, dir, d) ==
    /\ dir # Empty \/ ~ _should_skip_dir(d)
    /\ ~ Ignored(t, ign, RelPath(dir, d) \o <<"/">>)

\* dirnames[:] = [...]: the sub-directories os.walk will descend into
KeepDir(t, ign, dir, d) ==
    /\ ~ _should_skip_dir(d)
    /\ ~ Ignored(t, ign, RelPath(dir, d) \o <<"/">>)

FileInfo(dir, fname) ==
    [full_path |-> <<"root", "/">> \o RelPath(dir, fname),
     rel_path  |-> RelPath(dir, fname),
     ext       |-> Suffix(fname),
     name      |-> fname]

\* the body of "for fname in filenames", for the file names in os.walk's order
RECURSIVE YieldFiles(_, _, _, _)
YieldFiles(t, ign, dir, fnames) ==
    IF fnames = Empty THEN Empty
    ELSE LET fname == Head(fnames)
             rest == YieldFiles(t, ign, dir, Tail(fnames))
         IN  IF _is_binary(Suffix(fname)) THEN rest
             ELSE IF Ignored(t, ign, RelPath(dir, fname)) THEN rest
             ELSE <<FileInfo(dir, fname)>> \o rest

(***************************************************************************)
(* Text inside a name.  The code tests "word in name.lower()"; a name is   *)
(* one token here, so the test is a table over the names of the model.     *)
(* Names, extensions and decorators of the model are written in lower      *)
(* case except the class and base names below; lower() and upper() are     *)
(* tables too.                                                             *)
(***************************************************************************)
Lower(tok) ==
    CASE tok = "K" -> "k"
      [] tok = "B" -> "b"
      [] tok = "Model" -> "model"
      [] tok = "UserService" -> "userservice"
      [] OTHER -> tok

Upper(tok) ==
    CASE tok = "get" -> "GET"
      [] tok = "post" -> "POST"
      [] tok = "put" -> "PUT"
      [] tok = "patch" -> "PATCH"
      [] tok = "delete" -> "DELETE"
      [] tok = "head" -> "HEAD"
      [] tok = "options" -> "OPTIONS"
      [] tok = "use" -> "USE"
      [] tok = "all" -> "ALL"
      [] OTHER -> tok

\* word in tok, for two lower-case texts
InToken(word, tok) ==
    \/ tok = word
    \/ <<word, tok>> \in { <<"test", "tests">>, <<"test", "test_">>, <<"test", "_test">>,
                           <<"test", "__tests__">>, <<"spec", "specs">>,
                           <<"service", "userservice">>, <<"model", "models">> }

\* word in s.lower(), for a word without separators
InLower(word, s) == \E i \in DOMAIN s : InToken(word, Lower(s[i]))

LowerStr(s) == [i \in DOMAIN s |-> Lower(s[i])]

(***************************************************************************)
(* generic_analyzer.py                                                     *)
(***************************************************************************)
CONFIG_NAMES ==
    { <<"config">>, <<"settings">>, <<"configuration">>, <<".", "env">>, <<"env">>,
      <<"webpack">>, <<"babel">>, <<"eslint">>, <<"prettier">>, <<"tsconfig">>,
      <<"jest">>, <<"karma">>, <<"rollup">>, <<"vite">>, <<"next", ".", "config">>,
      <<"pyproject">>, <<"setup", ".", "cfg">>, <<"tox">>, <<"mypy">>, <<"flake8">>,
      <<"docker-compose">>, <<"dockerfile">>, <<"makefile">>, <<"cmake">>,
      <<"package", ".", "json">>, <<"cargo", ".", "toml">>, <<"go", ".", "mod">>,
      <<"gemfile">>, <<"pipfile">>, <<"poetry">>, <<"requirements">> }

CONFIG_EXTENSIONS ==
    { <<".", x>> : x \in { "json", "yaml", "yml", "toml", "ini", "cfg", "env", "conf",
                           "xml", "properties" } }

TEST_PATTERNS == { <<x>> : x \in {"test", "tests", "spec", "specs", "__tests__", "test_", "_test"} }
ROUTE_DIR_PATTERNS == { <<x>> : x \in {"routes", "api", "endpoints", "views", "controllers"} }
MODEL_DIR_PATTERNS == { <<x>> : x \in {"models", "entities", "schemas"} }
SERVICE_DIR_PATTERNS == { <<x>> : x \in {"services", "providers", "managers"} }
UTIL_DIR_PATTERNS == { <<x>> : x \in {"utils", "utilities", "helpers", "lib", "common", "shared"} }
MIDDLEWARE_DIR_PATTERNS == { <<x>> : x \in {"middleware", "middlewares"} }

_classify_by_path(rel_path, name, ext) ==
    LET all == PathParts(rel_path)
        parts == { LowerStr(all[i]) : i \in 1..(Len(all) - 1) }
        stem == LowerStr(Stem(name))
    IN  IF parts \cap TEST_PATTERNS # {} \/ InLower("test", stem) \/ InLower("spec", stem)
        THEN "test"
        ELSE IF stem \in CONFIG_NAMES \/ ext \in CONFIG_EXTENSIONS THEN "config"
        ELSE IF parts \cap ROUTE_DIR_PATTERNS # {} THEN "endpoint"
        ELSE IF parts \cap MODEL_DIR_PATTERNS # {} THEN "model"
        ELSE IF parts \cap SERVICE_DIR_PATTERNS # {} THEN "service"
        ELSE IF parts \cap UTIL_DIR_PATTERNS # {} THEN "utility"
        ELSE IF parts \cap MIDDLEWARE_DIR_PATTERNS # {} THEN "middleware"
        ELSE "file"

FileId(rel_path) == <<"file:">> \o rel_path

ModuleId(target) == <<"module:">> \o target

\* What reading a file gives.  status is "ok", "oserror" (open or read raised
\* OSError) or "undecodable" (the bytes are not valid UTF-8; the files are opened
\* with errors="ignore", so decoding drops the bad bytes and raises nothing);
\* items is what the patterns or the parser find in the text that was read.
ReadFails(src) == src.status = "oserror"

\* one target of _extract_generic_imports: the text a pattern captured
GenericTarget(item) ==
    IF item.k = "use" THEN Replace(item.text, "::", <<"/">>) ELSE item.text

GenericTargets(items) == { GenericTarget(items[i]) : i \in DOMAIN items }

\* the import edges as they would be if a placeholder node were inserted for each
RECURSIVE AddImportEdgesAndNodes(_, _, _)
AddImportEdgesAndNodes(g, file_id, targets) ==
    IF targets = Empty THEN g
    ELSE LET id == ModuleId(Head(targets))
             g1 == AddNode(g, Node(id, Head(targets), "module", Empty, 0, NoMetadata))
         IN  AddImportEdgesAndNodes(
                AddEdgeDeferred(g1, Edge(file_id, id, "imports", NoMetadata)),
                file_id, Tail(targets))

RECURSIVE AddImportEdges(_, _, _)
AddImportEdges(g, file_id, targets) ==
    IF targets = Empty THEN g
    ELSE AddImportEdges(
            AddEdgeDeferred(g, Edge(file_id, ModuleId(Head(targets)), "imports", NoMetadata)),
            file_id, Tail(targets))

\* order: the order in which the set "targets" is iterated
_extract_generic_imports(g, file_info, file_id, src, order) ==
    IF ReadFails(src) THEN g ELSE AddImportEdges(g, file_id, order)

OwnedExtensions == PYTHON_EXTENSIONS \cup JS_EXTENSIONS

\* the generic pass as it would be if run for the files of no other extractor only
GenericAnalyzeFileOthersOnly(g, file_info, src, order) ==
    LET file_id == FileId(file_info.rel_path)
        node_type == _classify_by_path(file_info.rel_path, file_info.name, file_info.ext)
        g1 == AddNode(g, Node(file_id, file_info.name, node_type, file_info.rel_path, 0,
                              [extension |-> file_info.ext]))
    IN  IF file_info.ext \notin OwnedExtensions
        THEN _extract_generic_imports(g1, file_info, file_id, src, order)
        ELSE g

GenericAnalyzeFile(g, file_info, src, order) ==
    LET file_id == FileId(file_info.rel_path)
        node_type == _classify_by_path(file_info.rel_path, file_info.name, file_info.ext)
        g1 == AddNode(g, Node(file_id, file_info.name, node_type, file_info.rel_path, 0,
                              [extension |-> file_info.ext]))
    IN  IF file_info.ext \notin OwnedExtensions
        THEN _extract_generic_imports(g1, file_info, file_id, src, order)
        ELSE g1

(***************************************************************************)
(* python_analyzer.py.  The parsed file is the list of what ast.walk       *)
(* meets, in its order:                                                    *)
(*   [k |-> "import", module]           import a.b (one alias)             *)
(*   [k |-> "from", module, level]      from ..a import c; module is Empty *)
(*                                      (None) for "from . import c"       *)
(*   [k |-> "class", name, bases, decorators, methods, lineno]             *)
(*   [k |-> "def", name, decorators, is_async, lineno]   (module level)    *)
(*   [k |-> "call", obj, method]        obj.method(...); obj "" if no Name *)
(*   [k |-> "callname", func]           func(...)                          *)
(***************************************************************************)
ENDPOINT_DECORATORS ==
    { "route", "get", "post", "put", "patch", "delete", "head", "options",
      "api_view", "action", "websocket" }

ROUTER_PATTERNS ==
    { <<x>> : x \in {"APIRouter", "Blueprint", "Router", "Namespace", "DefaultRouter", "SimpleRouter"} }

MODEL_BASES ==
    { <<"Model">>, <<"models", ".", "Model">>, <<"db", ".", "Model">>, <<"Base">>,
      <<"Document">>, <<"EmbeddedDocument">>, <<"ModelBase">> }

TASK_DECORATORS == { "task", "shared_task", "periodic_task", "job", "background_task" }

DB_READ_METHODS ==
    { "filter", "get", "all", "first", "last", "count", "exists", "aggregate", "values",
      "values_list", "select_related", "prefetch_related", "annotate", "order_by",
      "distinct", "exclude", "find", "find_one", "find_many", "query", "execute",
      "fetchone", "fetchall", "fetchmany", "select", "where" }

DB_WRITE_METHODS ==
    { "save", "create", "update", "delete", "bulk_create", "bulk_update", "insert",
      "insert_one", "insert_many", "update_one", "update_many", "delete_one",
      "delete_many", "commit", "add", "merge", "flush", "put_item", "delete_item" }

API_CALL_NAMES ==
    { "get", "post", "put", "patch", "delete", "head", "options", "request", "fetch", "urlopen" }

API_CALL_MODULES == { "requests", "httpx", "aiohttp", "urllib" }

HTTP_VERBS == { "get", "post", "put", "patch", "delete", "head", "options" }

IgnoredBases == { <<"object">>, <<"type">>, <<"ABC">>, <<"Exception">> }

Items(items, kinds) == SelectSeq(items, LAMBDA it : it.k \in kinds)

RECURSIVE _guess_http_method(_)
_guess_http_method(decorators) ==
    IF decorators = Empty THEN "GET"
    ELSE IF Lower(Head(decorators)) \in HTTP_VERBS THEN Upper(Lower(Head(decorators)))
    ELSE _guess_http_method(Tail(decorators))

ClassNodeType(name, bases) ==
    IF \E i \in DOMAIN bases : bases[i] \in MODEL_BASES THEN "model"
    ELSE IF name \in ROUTER_PATTERNS \/ (\E i \in DOMAIN bases : bases[i] \in ROUTER_PATTERNS)
    THEN "router"
    ELSE IF InLower("service", name) THEN "service"
    ELSE IF InLower("middleware", name) THEN "middleware"
    ELSE IF InLower("util", name) \/ InLower("helper", name) THEN "utility"
    ELSE "class"

ClassId(rel_path, name) == <<"class:">> \o rel_path \o <<":">> \o name

ClassRefId(base) == <<"class_ref:">> \o base

\* the bases loop as it would be with the inherits edge added by add_edge before
\* the class_ref node is inserted
RECURSIVE PyBasesEdgeFirst(_, _, _)
PyBasesEdgeFirst(g, class_id, bases) ==
    IF bases = Empty THEN g
    ELSE LET base == Head(bases)
             inherit_id == ClassRefId(base)
             g1 == AddEdge(g, Edge(class_id, inherit_id, "inherits", NoMetadata))
             g2 == AddNode(g1, Node(inherit_id, base, "class", Empty, 0,
                                    [external_ref |-> TRUE]))
         IN  PyBasesEdgeFirst(IF base \in IgnoredBases THEN g ELSE g2, class_id, Tail(bases))

RECURSIVE PyBases(_, _, _)
PyBases(g, class_id, bases) ==
    IF bases = Empty THEN g
    ELSE LET base == Head(bases)
             inherit_id == ClassRefId(base)
             g1 == AddNode(g, Node(inherit_id, base, "class", Empty, 0,
                                   [external_ref |-> TRUE]))
             g2 == AddEdgeDeferred(g1, Edge(class_id, inherit_id, "inherits", NoMetadata))
         IN  PyBases(IF base \in IgnoredBases THEN g ELSE g2, class_id, Tail(bases))

RECURSIVE PyMethods(_, _, _, _, _)
PyMethods(g, file_info, class_id, cname, methods) ==
    IF methods = Empty THEN g
    ELSE LET item == Head(methods)
             ep_id == <<"endpoint:">> \o file_info.rel_path \o <<":">> \o cname
                         \o <<".">> \o item.name
             g1 == AddNode(g, Node(ep_id, cname \o <<".">> \o item.name, "endpoint",
                                   file_info.rel_path, item.lineno,
                                   [method |-> _guess_http_method(item.decorators)]))
             g2 == AddEdge(g1, Edge(class_id, ep_id, "endpoint_handler", NoMetadata))
             hit == \E i \in DOMAIN item.decorators : item.decorators[i] \in ENDPOINT_DECORATORS
         IN  PyMethods(IF hit THEN g2 ELSE g, file_info, class_id, cname, Tail(methods))

RECURSIVE PyClasses(_, _, _, _)
PyClasses(g, file_info, file_id, classes) ==
    IF classes = Empty THEN g
    ELSE LET node == Head(classes)
             class_id == ClassId(file_info.rel_path, node.name)
             g1 == AddNode(g, Node(class_id, node.name, ClassNodeType(node.name, node.bases),
                                   file_info.rel_path, node.lineno,
                                   [bases |-> node.bases, decorators |-> node.decorators]))
             g2 == AddEdge(g1, Edge(file_id, class_id, "uses", NoMetadata))
             g3 == PyBases(g2, class_id, node.bases)
             g4 == PyMethods(g3, file_info, class_id, node.name, node.methods)
         IN  PyClasses(g4, file_info, file_id, Tail(classes))

_extract_classes(g, file_info, file_id, tree_items) ==
    PyClasses(g, file_info, file_id, Items(tree_items, {"class"}))

FuncNodeType(name, decorators) ==
    IF \E i \in DOMAIN decorators : decorators[i] \in ENDPOINT_DECORATORS THEN "endpoint"
    ELSE IF \E i \in DOMAIN decorators : decorators[i] \in TASK_DECORATORS THEN "task"
    ELSE IF InLower("middleware", name) THEN "middleware"
    ELSE "function"

FuncId(rel_path, name) == <<"func:">> \o rel_path \o <<":">> \o name

RECURSIVE PyFunctions(_, _, _, _)
PyFunctions(g, file_info, file_id, defs) ==
    IF defs = Empty THEN g
    ELSE LET node == Head(defs)
             func_id == FuncId(file_info.rel_path, node.name)
             node_type == FuncNodeType(node.name, node.decorators)
             g1 == AddNode(g, Node(func_id, node.name, node_type, file_info.rel_path,
                                   node.lineno,
                                   [decorators |-> node.decorators, is_async |-> node.is_async]))
             g2 == AddEdge(g1, Edge(file_id, func_id, "uses", NoMetadata))
             g3 == IF node_type = "endpoint"
                   THEN AddEdge(g2, Edge(file_id, func_id, "endpoint_handler", NoMetadata))
                   ELSE g2
         IN  PyFunctions(g3, file_info, file_id, Tail(defs))

_extract_functions(g, file_info, file_id, tree_items) ==
    PyFunctions(g, file_info, file_id, Items(tree_items, {"def"}))

\* the module: targets of the import statements, in order; "if node.module" skips
\* a from-import without a module name
RECURSIVE PyImportTargets(_)
PyImportTargets(stmts) ==
    IF stmts = Empty THEN Empty
    ELSE (IF Head(stmts).k = "from" /\ Head(stmts).module = Empty
          THEN Empty ELSE <<Head(stmts).module>>)
         \o PyImportTargets(Tail(stmts))

_extract_imports(g, file_info, file_id, tree_items) ==
    AddImportEdges(g, file_id, PyImportTargets(Items(tree_items, {"import", "from"})))

SelfEdge(file_id, type, metadata) == Edge(file_id, file_id, type, metadata)

RECURSIVE PyCalls(_, _, _)
PyCalls(g, file_id, calls) ==
    IF calls = Empty THEN g
    ELSE LET node == Head(calls)
             g1 == IF node.k # "call" THEN g
                   ELSE IF node.method \in DB_READ_METHODS
                   THEN AddEdgeDeferred(g, SelfEdge(file_id, "db_read",
                            [method |-> node.method, object |-> node.obj]))
                   ELSE IF node.method \in DB_WRITE_METHODS
                   THEN AddEdgeDeferred(g, SelfEdge(file_id, "db_write",
                            [method |-> node.method, object |-> node.obj]))
                   ELSE g
             g2 == IF node.k = "call" /\ node.obj \in API_CALL_MODULES
                      /\ node.method \in API_CALL_NAMES
                   THEN AddEdgeDeferred(g1, SelfEdge(file_id, "api_call",
                            [method |-> node.method, module |-> node.obj]))
                   ELSE g1
             g3 == IF node.k = "callname" /\ node.func \in {"fetch", "urlopen"}
                   THEN AddEdgeDeferred(g2, SelfEdge(file_id, "api_call",
                            [function |-> node.func]))
                   ELSE g2
         IN  PyCalls(g3, file_id, Tail(calls))

_extract_calls(g, file_info, file_id, tree_items) ==
    PyCalls(g, file_id, Items(tree_items, {"call", "callname"}))

\* src.parse is "ok", "syntaxerror" (ast.parse raised SyntaxError) or "exception"
\* (ast.parse raised something else: ValueError, RecursionError, MemoryError)
PyRaises(src) == ~ReadFails(src) /\ src.parse = "exception"

PyAnalyzeFile(g, file_info, src) ==
    IF ReadFails(src) THEN g
    ELSE IF src.parse = "syntaxerror" THEN g
    ELSE LET file_id == FileId(file_info.rel_path)
             g1 == _extract_classes(g, file_info, file_id, src.items)
             g2 == _extract_functions(g1, file_info, file_id, src.items)
             g3 == _extract_imports(g2, file_info, file_id, src.items)
         IN  _extract_calls(g3, file_info, file_id, src.items)

(***************************************************************************)
(* js_analyzer.py.  The text that was read is the list of the matches the  *)
(* patterns find in it, each pattern's matches in text order:              *)
(*   [k |-> "route", verb, path, lineno]        RE_EXPRESS_ROUTE           *)
(*   [k |-> "class", name, base, lineno]        RE_CLASS_DECL, base Empty  *)
(*                                              when there is no extends   *)
(*   [k |-> "function", name, lineno]           RE_FUNCTION_EXPORT         *)
(*   [k |-> "arrow", name, lineno]              RE_CONST_ARROW             *)
(*   [k |-> "mongoose", name, lineno]           RE_MONGOOSE_MODEL          *)
(*   [k |-> "sequelize", name, lineno]          RE_SEQUELIZE_DEFINE        *)
(*   [k |-> "import", spec]                     RE_IMPORT_FROM, RE_REQUIRE,*)
(*                                              RE_DYNAMIC_IMPORT          *)
(*   [k |-> "fetch"], [k |-> "db_read"], [k |-> "db_write"],               *)
(*   [k |-> "router_init"]                      the presence patterns      *)
(***************************************************************************)
RECURSIVE JsRoutes(_, _, _, _)
JsRoutes(g, file_info, file_id, ms) ==
    IF ms = Empty THEN g
    ELSE LET m == Head(ms)
             method == Upper(m.verb)
             ep_id == <<"endpoint:">> \o file_info.rel_path \o <<":", method, ":">> \o m.path
             label == IF m.path # Empty THEN <<method, " ">> \o m.path
                      ELSE <<method, " (middleware)">>
             node_type == IF method = "USE" THEN "middleware" ELSE "endpoint"
             g1 == AddNode(g, Node(ep_id, label, node_type, file_info.rel_path, m.lineno,
                                   [method |-> method, path |-> m.path]))
             g2 == AddEdge(g1, Edge(file_id, ep_id, "endpoint_handler", NoMetadata))
         IN  JsRoutes(g2, file_info, file_id, Tail(ms))

_extract_routes(g, file_info, file_id, source) ==
    JsRoutes(g, file_info, file_id, Items(source, {"route"}))

JsClassNodeType(name) ==
    IF InLower("component", name) \/ InLower("view", name) THEN "component"
    ELSE IF InLower("service", name) THEN "service"
    ELSE IF InLower("middleware", name) THEN "middleware"
    ELSE IF InLower("controller", name) \/ InLower("router", name) THEN "router"
    ELSE IF InLower("model", name) THEN "model"
    ELSE "class"

RECURSIVE JsClasses(_, _, _, _)
JsClasses(g, file_info, file_id, ms) ==
    IF ms = Empty THEN g
    ELSE LET m == Head(ms)
             class_id == ClassId(file_info.rel_path, m.name)
             g1 == AddNode(g, Node(class_id, m.name, JsClassNodeType(m.name),
                                   file_info.rel_path, m.lineno, [extends |-> m.base]))
             g2 == AddEdge(g1, Edge(file_id, class_id, "uses", NoMetadata))
             ref_id == ClassRefId(m.base)
             g3 == AddNode(g2, Node(ref_id, m.base, "class", Empty, 0,
                                    [external_ref |-> TRUE]))
             g4 == AddEdgeDeferred(g3, Edge(class_id, ref_id, "inherits", NoMetadata))
         IN  JsClasses(IF m.base # Empty THEN g4 ELSE g2, file_info, file_id, Tail(ms))

\* is the first letter of the name a capital
IsUpperFirst(name) == name # Empty /\ Head(name) # Lower(Head(name))

JsFuncNodeType(name, ext) ==
    IF InLower("middleware", name) THEN "middleware"
    ELSE IF InLower("handler", name) \/ InLower("controller", name) THEN "endpoint"
    ELSE IF IsUpperFirst(name) /\ ext \in { <<".", "jsx">>, <<".", "tsx">> } THEN "component"
    ELSE "function"

RECURSIVE JsFunctions(_, _, _, _, _)
JsFunctions(g, file_info, file_id, ms, seen_names) ==
    IF ms = Empty THEN g
    ELSE LET m == Head(ms)
             func_id == FuncId(file_info.rel_path, m.name)
             g1 == AddNode(g, Node(func_id, m.name, JsFuncNodeType(m.name, file_info.ext),
                                   file_info.rel_path, m.lineno, NoMetadata))
             g2 == AddEdge(g1, Edge(file_id, func_id, "uses", NoMetadata))
         IN  IF m.name \in seen_names
             THEN JsFunctions(g, file_info, file_id, Tail(ms), seen_names)
             ELSE JsFunctions(g2, file_info, file_id, Tail(ms), seen_names \cup {m.name})

_extract_functions_and_classes(g, file_info, file_id, source) ==
    LET classes == Items(source, {"class"})
        g1 == JsClasses(g, file_info, file_id, classes)
        seen == { classes[i].name : i \in DOMAIN classes }
    IN  JsFunctions(g1, file_info, file_id,
                    Items(source, {"function"}) \o Items(source, {"arrow"}), seen)

RECURSIVE JsModels(_, _, _, _)
JsModels(g, file_info, file_id, ms) ==
    IF ms = Empty THEN g
    ELSE LET m == Head(ms)
             model_id == <<"model:">> \o file_info.rel_path \o <<":">> \o m.name
             g1 == AddNode(g, Node(model_id, m.name, "model", file_info.rel_path,
                                   m.lineno, NoMetadata))
             g2 == AddEdge(g1, Edge(file_id, model_id, "uses", NoMetadata))
         IN  JsModels(g2, file_info, file_id, Tail(ms))

_extract_models(g, file_info, file_id, source) ==
    JsModels(g, file_info, file_id,
             Items(source, {"mongoose"}) \o Items(source, {"sequelize"}))

JsImportTargets(source) ==
    LET ms == Items(source, {"import"}) IN { ms[i].spec : i \in DOMAIN ms }

\* order: the order in which the set "targets" is iterated
_extract_js_imports(g, file_info, file_id, source, order) ==
    AddImportEdges(g, file_id, order)

_extract_api_calls(g, file_info, file_id, source) ==
    IF Items(source, {"fetch"}) # Empty
    THEN AddEdgeDeferred(g, SelfEdge(file_id, "api_call", NoMetadata))
    ELSE g

_extract_db_ops(g, file_info, file_id, source) ==
    LET g1 == IF Items(source, {"db_read"}) # Empty
              THEN AddEdgeDeferred(g, SelfEdge(file_id, "db_read", NoMetadata))
              ELSE g
    IN  IF Items(source, {"db_write"}) # Empty
        THEN AddEdgeDeferred(g1, SelfEdge(file_id, "db_write", NoMetadata))
        ELSE g1

_detect_router(g, file_info, file_id, source) ==
    IF Items(source, {"router_init"}) # Empty
    THEN LET router_id == <<"router:">> \o file_info.rel_path
             g1 == AddNode(g, Node(router_id,
                                   Stem(PathParts(file_info.rel_path)[Len(PathParts(file_info.rel_path))])
                                       \o <<" (router)">>,
                                   "router", file_info.rel_path, 0, NoMetadata))
         IN  AddEdge(g1, Edge(file_id, router_id, "uses", NoMetadata))
    ELSE g

JsAnalyzeFile(g, file_info, src, order) ==
    IF ReadFails(src) THEN g
    ELSE LET file_id == FileId(file_info.rel_path)
             g1 == _extract_routes(g, file_info, file_id, src.items)
             g2 == _extract_functions_and_classes(g1, file_info, file_id, src.items)
             g3 == _extract_models(g2, file_info, file_id, src.items)
             g4 == _extract_js_imports(g3, file_info, file_id, src.items, order)
             g5 == _extract_api_calls(g4, file_info, file_id, src.items)
             g6 == _extract_db_ops(g5, file_info, file_id, src.items)
         IN  _detect_router(g6, file_info, file_id, src.items)

(***************************************************************************)
(* The import resolvers.  A dict is a function from keys to file ids.      *)
(***************************************************************************)
Lookup(map, key) == map[key]

Has(map, key) == key \in DOMAIN map

\* map[key] = value
Put(map, key, value) == (key :> value) @@ map

\* map.setdefault(key, value)
SetDefault(map, key, value) == map @@ (key :> value)

\* the dotted module path of a python file
PyModuleOf(rel) ==
    LET m0 == Replace(Replace(rel, "/", <<".">>), "\\", <<".">>)
        m1 == IF EndsWith(m0, <<".", "py">>) THEN DropLast(m0, 2) ELSE m0
    IN  IF EndsWith(m1, <<".", "__init__">>) THEN DropLast(m1, 2) ELSE m1

RECURSIVE ModuleMap(_)
ModuleMap(python_files) ==
    IF python_files = Empty THEN << >>
    ELSE LET n == Len(python_files)
             f == python_files[n]
         IN  Put(ModuleMap(DropLast(python_files, 1)), PyModuleOf(f.rel_path),
                 FileId(f.rel_path))

\* the last i parts of a dotted name, joined
LastParts(parts, i) == Join(SubSeq(parts, Len(parts) - i + 1, Len(parts)), ".")

FirstParts(parts, i) == Join(SubSeq(parts, 1, i), ".")

RECURSIVE AddSuffixes(_, _, _, _)
AddSuffixes(map, parts, file_id, i) ==
    IF i > Len(parts) THEN map
    ELSE AddSuffixes(SetDefault(map, LastParts(parts, i), file_id), parts, file_id, i + 1)

RECURSIVE SuffixMap(_)
SuffixMap(python_files) ==
    IF python_files = Empty THEN << >>
    ELSE LET n == Len(python_files)
             f == python_files[n]
         IN  AddSuffixes(SuffixMap(DropLast(python_files, 1)),
                         Split(PyModuleOf(f.rel_path), "."), FileId(f.rel_path), 1)

\* the resolver as it would be without the loop over the dotted prefixes
PyPrefixHitNone(module_map, suffix_map, parts, i) == Empty

\* the loop over the dotted prefixes, longest first: the new target, or Empty
RECURSIVE PyPrefixHit(_, _, _, _)
PyPrefixHit(module_map, suffix_map, parts, i) ==
    IF i = 0 THEN Empty
    ELSE LET prefix == FirstParts(parts, i)
         IN  IF Has(module_map, prefix) THEN Lookup(module_map, prefix)
             ELSE IF Has(suffix_map, prefix) THEN Lookup(suffix_map, prefix)
             ELSE PyPrefixHit(module_map, suffix_map, parts, i - 1)

IsDeferredImport(edge) == edge.type = "imports" /\ StartsWith(edge.target, <<"module:">>)

PyResolveEdge(module_map, suffix_map, edge) ==
    IF ~IsDeferredImport(edge) THEN edge
    ELSE LET mod_name == DropFirst(edge.target, 1)
             parts == Split(mod_name, ".")
             hit == PyPrefixHit(module_map, suffix_map, parts, Len(parts))
         IN  IF Has(module_map, mod_name)
             THEN [edge EXCEPT !.target = Lookup(module_map, mod_name)]
             ELSE IF Has(suffix_map, mod_name)
             THEN [edge EXCEPT !.target = Lookup(suffix_map, mod_name)]
             ELSE IF hit # Empty THEN [edge EXCEPT !.target = hit]
             ELSE edge

PyResolveImports(g, python_files) ==
    LET module_map == ModuleMap(python_files)
        suffix_map == SuffixMap(python_files)
    IN  [g EXCEPT !.edges = [i \in DOMAIN g.edges |->
                                PyResolveEdge(module_map, suffix_map, g.edges[i])]]

JsStripExts == << <<".", "js">>, <<".", "jsx">>, <<".", "ts">>, <<".", "tsx">>,
                  <<".", "mjs">>, <<".", "cjs">> >>

\* the first listed extension the path ends with is cut off
RECURSIVE JsStem(_, _)
JsStem(rel, exts) ==
    IF exts = Empty THEN rel
    ELSE IF EndsWith(rel, Head(exts)) THEN DropLast(rel, Len(Head(exts)))
    ELSE JsStem(rel, Tail(exts))

RECURSIVE FilePaths(_)
FilePaths(js_files) ==
    IF js_files = Empty THEN << >>
    ELSE LET n == Len(js_files)
             rel == js_files[n].rel_path
             file_id == FileId(rel)
             stem == JsStem(rel, JsStripExts)
             m1 == Put(FilePaths(DropLast(js_files, 1)), stem, file_id)
             m2 == Put(m1, rel, file_id)
         IN  IF EndsWith(stem, <<"/", "index">>) THEN Put(m2, DropLast(stem, 2), file_id)
             ELSE m2

JsProbeExts == << <<".", "js">>, <<".", "jsx">>, <<".", "ts">>, <<".", "tsx">> >>

\* the probing loop: the key tried is resolved + ext.replace(".", "/")
RECURSIVE JsProbe(_, _, _)
JsProbe(file_paths, resolved, exts) ==
    IF exts = Empty THEN Empty
    ELSE LET key == resolved \o Replace(Head(exts), ".", <<"/">>)
         IN  IF Has(file_paths, key) THEN Lookup(file_paths, key)
             ELSE IF Has(file_paths, resolved) THEN Lookup(file_paths, resolved)
             ELSE JsProbe(file_paths, resolved, Tail(exts))

\* the path a relative specifier names, joined to the importing file's directory
JsResolved(source, mod) ==
    LET source_file == Replace(source, "file:", Empty)
        dir0 == PathParent(source_file)
        source_dir == IF dir0 = <<".">> THEN Empty ELSE dir0
    IN  PathStr(PathJoin(source_dir, mod))

JsResolveEdge(file_paths, edge) ==
    IF ~IsDeferredImport(edge) THEN edge
    ELSE LET mod == DropFirst(edge.target, 1)
             resolved == JsResolved(edge.source, mod)
             hit == JsProbe(file_paths, resolved, JsProbeExts)
         IN  IF ~StartsWith(mod, <<".">>) THEN edge
             ELSE IF Has(file_paths, resolved)
             THEN [edge EXCEPT !.target = Lookup(file_paths, resolved)]
             ELSE IF hit # Empty THEN [edge EXCEPT !.target = hit]
             ELSE edge

JsResolveImports(g, js_files) ==
    LET file_paths == FilePaths(js_files)
    IN  [g EXCEPT !.edges = [i \in DOMAIN g.edges |-> JsResolveEdge(file_paths, g.edges[i])]]

(***************************************************************************)
(* The inputs: the files a tree may hold and what reading them may give.   *)
(***************************************************************************)
F(dir, name) == [dir |-> dir, name |-> name]

Catalogue ==
    { F(<< <<"a">> >>, <<"x", ".", "js">>),
      F(<< <<"a">> >>, <<"y", ".", "js">>),
      F(<< <<"a">>, <<"y">> >>, <<"index", ".", "js">>),
      F(<< <<"api">> >>, <<"x", ".", "js">>),
      F(Empty, <<"m", ".", "py">>),
      F(<< <<"a">> >>, <<"m", ".", "py">>),
      F(<< <<"b">> >>, <<"m", ".", "py">>),
      F(<< <<"m">> >>, <<"__init__", ".", "py">>),
      F(Empty, <<"c", ".", "h">>),
      F(<< <<"node_modules">> >>, <<"z", ".", "js">>),
      F(<< <<"a">>, <<".", "git">> >>, <<"z", ".", "py">>),
      F(Empty, <<"i", ".", "png">>),
      F(Empty, GitignoreName) }

Trees == { t \in SUBSET Catalogue : Cardinality(t) <= MaxFiles }

\* the directories of a tree: every prefix of a file's dir
Dirs(t) == UNION { { SubSeq(f.dir, 1, n) : n \in 0..Len(f.dir) } : f \in t }

\* the paths the ignore matcher is asked about
AskedPaths(t) ==
    { RelPath(f.dir, f.name) : f \in t }
    \cup { RelPath(DropLast(d, 1), d[Len(d)]) \o <<"/">> : d \in Dirs(t) \ {Empty} }

IgnoreSets(t) ==
    IF HasGitignore(t)
    THEN { ign \in SUBSET AskedPaths(t) : Cardinality(ign) <= MaxIgnored }
    ELSE { {} }

GenericItemSet ==
    { [k |-> "include", text |-> <<"m", ".", "h">>],
      [k |-> "use", text |-> <<"m", "::", "x">>] }

PyItemSet ==
    { [k |-> "import", module |-> <<"m">>],
      [k |-> "import", module |-> <<"m", ".", "x">>],
      [k |-> "import", module |-> <<"os">>],
      [k |-> "from", module |-> Empty, level |-> 1],
      [k |-> "class", name |-> <<"K">>, bases |-> << <<"B">> >>, decorators |-> Empty,
       methods |-> << [name |-> <<"get">>, decorators |-> <<"get">>, lineno |-> 2] >>,
       lineno |-> 1],
      [k |-> "def", name |-> <<"f">>, decorators |-> <<"route">>, is_async |-> FALSE,
       lineno |-> 4],
      [k |-> "call", obj |-> "q", method |-> "filter"] }

JsItemSet ==
    { [k |-> "import", spec |-> <<".", "/", "y">>],
      [k |-> "import", spec |-> <<".", "/", "y", ".", "js">>],
      [k |-> "import", spec |-> <<".", ".", "/", "x">>],
      [k |-> "import", spec |-> <<"lodash">>],
      [k |-> "import", spec |-> <<"m">>],
      [k |-> "route", verb |-> "get", path |-> <<"/", "p">>, lineno |-> 3],
      [k |-> "class", name |-> <<"K">>, base |-> <<"B">>, lineno |-> 1],
      [k |-> "db_read"] }

\* the items are listed pattern by pattern (kind by kind), each kind in text order
KindRank(k) ==
    CASE k \in {"route", "class"} -> 1
      [] k \in {"function", "def"} -> 2
      [] k = "arrow" -> 3
      [] k \in {"mongoose", "import", "from", "include", "use"} -> 4
      [] k \in {"sequelize", "call", "callname"} -> 5
      [] OTHER -> 6

Grouped(items) ==
    \A i \in 1..(Len(items) - 1) : KindRank(items[i].k) <= KindRank(items[i + 1].k)

ItemLists(S, n) == { items \in UNION { [1..m -> S] : m \in 0..n } : Grouped(items) }

\* what reading (and, for python, parsing) a file may give when at most n more
\* items may be found; a file that fails to read or parse gives no items
Sources(S, n, parses) ==
    { [status |-> "oserror", parse |-> "none", items |-> Empty] }
    \cup { [status |-> st, parse |-> p, items |-> Empty] :
              st \in {"ok", "undecodable"}, p \in parses \ {"ok"} }
    \cup { [status |-> st, parse |-> "ok", items |-> items] :
              st \in {"ok", "undecodable"}, items \in ItemLists(S, n) }

GenericSources(n) == Sources(GenericItemSet, n, {"ok"})

PySources(n) == Sources(PyItemSet, n, {"ok", "syntaxerror", "exception"})

JsSources(n) == Sources(JsItemSet, n, {"ok"})

\* the items found so far
RECURSIVE ItemsFound(_, _)
ItemsFound(rd, fs) ==
    IF fs = Empty THEN 0
    ELSE (IF Head(fs).rel_path \in DOMAIN rd THEN Len(rd[Head(fs).rel_path].items) ELSE 0)
         + ItemsFound(rd, Tail(fs))

(***************************************************************************)
(* orchestrator.py: collect_files and analyze_repo.                        *)
(***************************************************************************)
PythonFiles(fs) == SelectSeq(fs, LAMBDA f : f.ext \in PYTHON_EXTENSIONS)

JsFiles(fs) == SelectSeq(fs, LAMBDA f : f.ext \in JS_EXTENSIONS)

\* analyze_repo as it would be with the python resolver run after the script files
\* were extracted
RECURSIVE PhaseAfterLatePyResolve(_, _)
PhaseAfterLatePyResolve(phase, fs) ==
    CASE phase = "collect" ->
            IF fs # Empty THEN "generic" ELSE PhaseAfterLatePyResolve("generic", fs)
      [] phase = "generic" ->
            IF PythonFiles(fs) # Empty THEN "python"
            ELSE PhaseAfterLatePyResolve("python", fs)
      [] phase = "python" ->
            IF JsFiles(fs) # Empty THEN "js" ELSE PhaseAfterLatePyResolve("js", fs)
      [] phase = "js" ->
            IF PythonFiles(fs) # Empty THEN "py_resolve"
            ELSE PhaseAfterLatePyResolve("py_resolve", fs)
      [] phase = "py_resolve" -> IF JsFiles(fs) # Empty THEN "js_resolve" ELSE "resolve_edges"
      [] phase = "js_resolve" -> "resolve_edges"
      [] phase = "resolve_edges" -> "to_dict"
      [] phase = "to_dict" -> "done"

\* analyze_repo as it would be with resolve_edges called before the script resolver
RECURSIVE PhaseAfterEarlyResolve(_, _)
PhaseAfterEarlyResolve(phase, fs) ==
    CASE phase = "collect" ->
            IF fs # Empty THEN "generic" ELSE PhaseAfterEarlyResolve("generic", fs)
      [] phase = "generic" ->
            IF PythonFiles(fs) # Empty THEN "python"
            ELSE PhaseAfterEarlyResolve("py_resolve", fs)
      [] phase = "python" -> "py_resolve"
      [] phase = "py_resolve" -> IF JsFiles(fs) # Empty THEN "js" ELSE "resolve_edges"
      [] phase = "js" -> "resolve_edges"
      [] phase = "resolve_edges" -> IF JsFiles(fs) # Empty THEN "js_resolve" ELSE "to_dict"
      [] phase = "js_resolve" -> "to_dict"
      [] phase = "to_dict" -> "done"

\* analyze_repo's control flow: the step that follows the completed step "phase"
\* for the file list fs.  The steps are "collect" (collect_files), "generic",
\* "python", "js" (the three loops over files), "py_resolve", "js_resolve" (the
\* resolver passes), "resolve_edges", "to_dict" and "done" (the return).
RECURSIVE PhaseAfter(_, _)
PhaseAfter(phase, fs) ==
    CASE phase = "collect" -> IF fs # Empty THEN "generic" ELSE PhaseAfter("generic", fs)
      [] phase = "generic" ->
            IF PythonFiles(fs) # Empty THEN "python" ELSE PhaseAfter("py_resolve", fs)
      [] phase = "python" -> "py_resolve"
      [] phase = "py_resolve" -> IF JsFiles(fs) # Empty THEN "js" ELSE "resolve_edges"
      [] phase = "js" -> "js_resolve"
      [] phase = "js_resolve" -> "resolve_edges"
      [] phase = "resolve_edges" -> "to_dict"
      [] phase = "to_dict" -> "done"

Graph == [nodes |-> nodes, edges |-> edges]

NoOutput == [nodes |-> << >>, edges |-> << >>]

Step(op, arg) == [op |-> op, arg |-> arg]

\* the next file of the running loop, or the step after the loop
Advance(phase, list) ==
    IF idx < Len(list)
    THEN pc' = phase /\ idx' = idx + 1
    ELSE pc' = PhaseAfter(phase, files) /\ idx' = 1

Budget == MaxItems - ItemsFound(reads, files)

Init ==
    /\ tree \in Trees
    /\ ignore \in IgnoreSets(tree)
    /\ stack = <<Empty>>
    /\ files = Empty
    /\ nodes = << >>
    /\ edges = Empty
    /\ pc = "collect"
    /\ idx = 1
    /\ output = NoOutput
    /\ reads = << >>
    /\ log = Empty

\* one iteration of "for dirpath, dirnames, filenames in os.walk(root)"; the lists
\* come in the order the file system gives them; after the last directory
\* collect_files returns and analyze_repo builds the empty Graph
WalkDir ==
    /\ pc = "collect"
    /\ stack # Empty
    /\ LET dir == Head(stack)
           kept == { d \in DirNames(tree, dir) : KeepDir(tree, ignore, dir, d) }
       IN  \E dirnames \in Perms(kept), filenames \in Perms(FileNames(tree, dir)) :
              /\ files' = files \o YieldFiles(tree, ignore, dir, filenames)
              /\ stack' = [i \in DOMAIN dirnames |-> Append(dir, dirnames[i])] \o Tail(stack)
              /\ log' = Append(log, Step("walk", RelDir(dir)))
              /\ IF stack' = Empty
                 THEN pc' = PhaseAfter("collect", files')
                 ELSE pc' = "collect"
    /\ UNCHANGED <<tree, ignore, nodes, edges, idx, output, reads>>

\* generic.analyze_file(f, graph) for the next f of files
GenericFile ==
    /\ pc = "generic"
    /\ LET f == files[idx]
       IN  IF f.ext \in OwnedExtensions
           THEN /\ nodes' = GenericAnalyzeFile(Graph, f, [status |-> "unread"], Empty).nodes
                /\ edges' = GenericAnalyzeFile(Graph, f, [status |-> "unread"], Empty).edges
                /\ reads' = reads
           ELSE \E src \in GenericSources(Budget) :
                \E order \in Perms(GenericTargets(src.items)) :
                   /\ nodes' = GenericAnalyzeFile(Graph, f, src, order).nodes
                   /\ edges' = GenericAnalyzeFile(Graph, f, src, order).edges
                   /\ reads' = (f.rel_path :> src) @@ reads
    /\ log' = Append(log, Step("generic", files[idx].rel_path))
    /\ Advance("generic", files)
    /\ UNCHANGED <<tree, ignore, stack, files, output>>

\* py_analyzer.analyze_file(f, graph) for the next f of python_files; an exception
\* ast.parse raises that is not a SyntaxError leaves analyze_file and analyze_repo
PythonFile ==
    /\ pc = "python"
    /\ LET f == PythonFiles(files)[idx]
       IN  \E src \in PySources(Budget) :
              /\ reads' = (f.rel_path :> src) @@ reads
              /\ log' = Append(log, Step("python", f.rel_path))
              /\ IF PyRaises(src)
                 THEN /\ pc' = "raised"
                      /\ UNCHANGED <<nodes, edges, idx>>
                 ELSE /\ nodes' = PyAnalyzeFile(Graph, f, src).nodes
                      /\ edges' = PyAnalyzeFile(Graph, f, src).edges
                      /\ Advance("python", PythonFiles(files))
    /\ UNCHANGED <<tree, ignore, stack, files, output>>

\* py_analyzer.resolve_imports(python_files, graph)
PyResolve ==
    /\ pc = "py_resolve"
    /\ edges' = PyResolveImports(Graph, PythonFiles(files)).edges
    /\ log' = Append(log, Step("py_resolve", Empty))
    /\ pc' = PhaseAfter("py_resolve", files)
    /\ UNCHANGED <<tree, ignore, stack, files, nodes, idx, output, reads>>

\* js_analyzer.analyze_file(f, graph) for the next f of js_files
JsFile ==
    /\ pc = "js"
    /\ LET f == JsFiles(files)[idx]
       IN  \E src \in JsSources(Budget) :
           \E order \in Perms(IF ReadFails(src) THEN {} ELSE JsImportTargets(src.items)) :
              /\ nodes' = JsAnalyzeFile(Graph, f, src, order).nodes
              /\ edges' = JsAnalyzeFile(Graph, f, src, order).edges
              /\ reads' = (f.rel_path :> src) @@ reads
              /\ log' = Append(log, Step("js", f.rel_path))
    /\ Advance("js", JsFiles(files))
    /\ UNCHANGED <<tree, ignore, stack, files, output>>

\* js_analyzer.resolve_imports(js_files, graph)
JsResolve ==
    /\ pc = "js_resolve"
    /\ edges' = JsResolveImports(Graph, JsFiles(files)).edges
    /\ log' = Append(log, Step("js_resolve", Empty))
    /\ pc' = PhaseAfter("js_resolve", files)
    /\ UNCHANGED <<tree, ignore, stack, files, nodes, idx, output, reads>>

\* graph.resolve_edges()
ResolveEdgesStep ==
    /\ pc = "resolve_edges"
    /\ edges' = ResolveEdges(Graph).edges
    /\ log' = Append(log, Step("resolve_edges", edges))
    /\ pc' = PhaseAfter("resolve_edges", files)
    /\ UNCHANGED <<tree, ignore, stack, files, nodes, idx, output, reads>>

\* result = graph.to_dict(), and the return
ToDictStep ==
    /\ pc = "to_dict"
    /\ output' = ToDict(Graph)
    /\ log' = Append(log, Step("to_dict", Empty))
    /\ pc' = PhaseAfter("to_dict", files)
    /\ UNCHANGED <<tree, ignore, stack, files, nodes, edges, idx, reads>>

Next ==
    \/ WalkDir
    \/ GenericFile
    \/ PythonFile
    \/ PyResolve
    \/ JsFile
    \/ JsResolve
    \/ ResolveEdgesStep
    \/ ToDictStep

Spec == Init /\ [][Next]_vars

(***************************************************************************)
(* The Graph class under any client: the public methods called in any      *)
(* order with any arguments.  log is the list of the calls made.           *)
(***************************************************************************)
ClientIds == { <<"file:", "a">>, <<"class:", "a", ":", "K">> }

ClientNodes ==
    { Node(id, <<"K">>, "class", <<"a">>, 1, NoMetadata) : id \in ClientIds }
    \cup { Node(id, <<"L">>, "function", <<"b">>, 2, [external_ref |-> TRUE]) : id \in ClientIds }

ClientEdges ==
    { Edge(s, t, "uses", NoMetadata) : s \in ClientIds, t \in ClientIds }
    \cup { Edge(<<"file:", "a">>, <<"file:", "a">>, "uses", [method |-> "get"]) }

\* the graphs a client may pass to merge
OtherGraphs ==
    { [nodes |-> ns, edges |-> es] :
        ns \in { m \in UNION { [S -> ClientNodes] : S \in SUBSET ClientIds } :
                    \A id \in DOMAIN m : m[id].id = id },
        es \in { Empty, <<Edge(<<"file:", "a">>, <<"class:", "a", ":", "K">>, "uses", NoMetadata)>> } }

InitGraph ==
    /\ tree = {}
    /\ ignore = {}
    /\ stack = Empty
    /\ files = Empty
    /\ nodes = << >>
    /\ edges = Empty
    /\ pc = "client"
    /\ idx = 1
    /\ output = NoOutput
    /\ reads = << >>
    /\ log = Empty

\* the effect of one call: the graph the method leaves, and the call logged
Called(op, arg, g) ==
    /\ nodes' = g.nodes
    /\ edges' = g.edges
    /\ log' = Append(log, Step(op, arg))

CallAddNode ==
    /\ pc = "client" /\ Len(log) < MaxCalls
    /\ \E n \in ClientNodes : Called("add_node", n, AddNode(Graph, n))
    /\ UNCHANGED <<tree, ignore, stack, files, pc, idx, output, reads>>

CallAddEdge ==
    /\ pc = "client" /\ Len(log) < MaxCalls
    /\ \E e \in ClientEdges : Called("add_edge", e, AddEdge(Graph, e))
    /\ UNCHANGED <<tree, ignore, stack, files, pc, idx, output, reads>>

CallAddEdgeDeferred ==
    /\ pc = "client" /\ Len(log) < MaxCalls
    /\ \E e \in ClientEdges : Called("add_edge_deferred", e, AddEdgeDeferred(Graph, e))
    /\ UNCHANGED <<tree, ignore, stack, files, pc, idx, output, reads>>

CallMerge ==
    /\ pc = "client" /\ Len(log) < MaxCalls
    /\ \E other \in OtherGraphs :
          Called("merge", other,
                 Merge(Graph, other, CHOOSE order \in Perms(DOMAIN other.nodes) : TRUE))
    /\ UNCHANGED <<tree, ignore, stack, files, pc, idx, output, reads>>

CallResolveEdges ==
    /\ pc = "client" /\ Len(log) < MaxCalls
    /\ Called("resolve_edges", edges, ResolveEdges(Graph))
    /\ UNCHANGED <<tree, ignore, stack, files, pc, idx, output, reads>>

NextGraph ==
    \/ CallAddNode
    \/ CallAddEdge
    \/ CallAddEdgeDeferred
    \/ CallMerge
    \/ CallResolveEdges

SpecGraph == InitGraph /\ [][NextGraph]_vars

(***************************************************************************)
(* The claims.                                                             *)
(***************************************************************************)
LogOps(op) == { i \in DOMAIN log : log[i].op = op }

\* the edge list resolve_edges was called on
EdgesBefore == log[CHOOSE i \in LogOps("resolve_edges") : TRUE].arg

Present(e) == e.source \in DOMAIN nodes /\ e.target \in DOMAIN nodes

\* C1: when analyze_repo has returned, every edge of the serialized output has its
\* source id and its target id among the ids of the serialized nodes.
C1_NoDanglingEdge ==
    pc = "done" =>
        \A i \in DOMAIN output.edges :
            /\ output.edges[i].source \in DOMAIN output.nodes
            /\ output.edges[i].target \in DOMAIN output.nodes

\* a run that returned edges, where resolve_edges met an edge with an absent endpoint
C1_Witness ==
    /\ pc = "done"
    /\ output.edges # Empty
    /\ \E i \in DOMAIN EdgesBefore : ~Present(EdgesBefore[i])

\* C2: in the serialized output no two edges have the same (source, target, type);
\* each output edge is the first edge with its triple in the list resolve_edges was
\* called on, and every triple of that list with both endpoints present is kept.
C2_UniqueFirstKept ==
    pc = "done" =>
        LET before == EdgesBefore
            out == output.edges
        IN  /\ \A i, j \in DOMAIN out : EdgeKey(out[i]) = EdgeKey(out[j]) => i = j
            /\ \A j \in DOMAIN out :
                  \E i \in DOMAIN before :
                     /\ before[i] = out[j]
                     /\ \A k \in 1..(i - 1) : EdgeKey(before[k]) # EdgeKey(out[j])
            /\ \A i \in DOMAIN before :
                  Present(before[i]) =>
                     \E j \in DOMAIN out : EdgeKey(out[j]) = EdgeKey(before[i])

\* a run where a resolver had rewritten two different module: targets of one file to
\* the same file id, so that resolve_edges met the triple twice
C2_Witness ==
    /\ pc = "done"
    /\ \E i, k \in DOMAIN EdgesBefore :
          /\ i < k
          /\ EdgeKey(EdgesBefore[i]) = EdgeKey(EdgesBefore[k])
          /\ EdgesBefore[i].orig # EdgesBefore[k].orig
          /\ Present(EdgesBefore[i])

\* the nodes call i of the Graph client offered for insertion
Inserted(i) ==
    IF log[i].op = "add_node" THEN {log[i].arg}
    ELSE IF log[i].op = "merge" THEN { log[i].arg.nodes[id] : id \in DOMAIN log[i].arg.nodes }
    ELSE {}

\* C3: after any sequence of calls, the node stored under an id is the first node
\* offered under that id (by add_node or merge), with all its fields, and every id
\* ever offered is still stored.
C3_FirstInsertionWins ==
    pc = "client" =>
        /\ \A i \in DOMAIN log : \A n \in Inserted(i) : n.id \in DOMAIN nodes
        /\ \A id \in DOMAIN nodes :
              \E i \in DOMAIN log :
                 /\ nodes[id] \in Inserted(i)
                 /\ \A k \in 1..(i - 1) : \A n \in Inserted(k) : n.id # id

\* an add_node and a merge (in either order) offered different nodes under one id
C3_Witness ==
    /\ pc = "client"
    /\ \E i, k \in DOMAIN log :
          /\ i # k
          /\ log[i].op = "add_node"
          /\ log[k].op = "merge"
          /\ \E n \in Inserted(k) : n.id = log[i].arg.id /\ n # log[i].arg

LastCall == log'[Len(log')]

\* C4: add_edge(edge) appends the edge iff both its endpoints are node ids at the
\* time of the call, and otherwise changes nothing; add_node never adds an edge, so
\* an edge add_edge dropped does not appear when its endpoint is inserted later.
C4_AddEdgeStep ==
    (pc = "client" /\ log' # log) =>
        /\ LastCall.op = "add_edge" =>
              /\ nodes' = nodes
              /\ edges' = IF LastCall.arg.source \in DOMAIN nodes
                             /\ LastCall.arg.target \in DOMAIN nodes
                          THEN Append(edges, LastCall.arg)
                          ELSE edges
        /\ LastCall.op = "add_node" => edges' = edges

C4_AddEdgeIffPresent == [][C4_AddEdgeStep]_vars

\* add_edge was called on an edge whose endpoint was absent, the endpoint was
\* inserted afterwards, and the edge is not in the edge list
C4_Witness ==
    /\ pc = "client"
    /\ \E i, j \in DOMAIN log :
          /\ i < j
          /\ log[i].op = "add_edge"
          /\ log[j].op = "add_node"
          /\ log[j].arg.id = log[i].arg.target
          /\ \A k \in 1..(j - 1) : \A n \in Inserted(k) : n.id # log[i].arg.target
          /\ \A k \in DOMAIN edges : edges[k] # log[i].arg

\* was step op taken (on file rel) before step i
StepBefore(op, i) == \E k \in 1..(i - 1) : log[k].op = op

FileStepBefore(op, rel, i) == \E k \in 1..(i - 1) : log[k].op = op /\ log[k].arg = rel

\* C5: a resolver pass starts only after every file of its family was extracted;
\* resolve_edges runs at most once, only after the resolver pass of every family
\* that has files, and once in a run that returns; to_dict runs only after
\* resolve_edges, and nothing but to_dict runs after resolve_edges.
C5_Ordered ==
    /\ \A i \in DOMAIN log :
          /\ log[i].op = "py_resolve" =>
                \A n \in DOMAIN PythonFiles(files) :
                    FileStepBefore("python", PythonFiles(files)[n].rel_path, i)
          /\ log[i].op = "js_resolve" =>
                \A n \in DOMAIN JsFiles(files) :
                    FileStepBefore("js", JsFiles(files)[n].rel_path, i)
          /\ log[i].op = "resolve_edges" =>
                /\ PythonFiles(files) # Empty => StepBefore("py_resolve", i)
                /\ JsFiles(files) # Empty => StepBefore("js_resolve", i)
                /\ \A k \in (i + 1)..Len(log) : log[k].op = "to_dict"
          /\ log[i].op = "to_dict" => StepBefore("resolve_edges", i)
    /\ Cardinality(LogOps("resolve_edges")) <= 1
    /\ pc = "done" => Cardinality(LogOps("resolve_edges")) = 1

\* a run that returned after both resolver passes
C5_Witness ==
    /\ pc = "done"
    /\ LogOps("py_resolve") # {}
    /\ LogOps("js_resolve") # {}

\* the directory part of a relative path whose last part is name
DirOf(f) ==
    IF Len(f.rel_path) = Len(f.name) THEN Empty
    ELSE SubSeq(f.rel_path, 1, Len(f.rel_path) - Len(f.name) - 1)

\* D/Y
Under(dir, y) == IF dir = Empty THEN y ELSE dir \o <<"/">> \o y

\* the specifiers a script file was found to import
ImportedSpecs(f) ==
    IF f.rel_path \in DOMAIN reads /\ ~ReadFails(reads[f.rel_path])
    THEN JsImportTargets(reads[f.rel_path].items)
    ELSE {}

\* the discovered script-family files whose path is p, bare or with a known extension
ScriptFilesAt(p) ==
    { g \in Range(JsFiles(files)) :
         g.rel_path = p \/ \E ext \in JS_EXTENSIONS : g.rel_path = p \o ext }

IsModuleId(id) == id # Empty /\ Head(id) = "module:"

OutEdges == Range(output.edges)

\* C6: when a script file F in directory D imports ./Y and a script file with path
\* D/Y (bare or with a known extension) was discovered, the output has an imports
\* edge from F's file node to that file's node and no edge from F to a module: id.
C6_SiblingImportResolved ==
    pc = "done" =>
        \A f \in Range(JsFiles(files)) :
            \A spec \in ImportedSpecs(f) :
                LET y == DropFirst(spec, 2)
                    found == ScriptFilesAt(Under(DirOf(f), y))
                IN  (StartsWith(spec, <<".", "/">>) /\ found # {}) =>
                        /\ \E e \in OutEdges :
                              /\ e.source = FileId(f.rel_path)
                              /\ e.type = "imports"
                              /\ e.target \in { FileId(g.rel_path) : g \in found }
                        /\ \A e \in OutEdges :
                              e.source = FileId(f.rel_path) => ~IsModuleId(e.target)

\* the name tokens of an import target
NameTokens(target) == Range(target) \ {".", "/", "::", "\\"}

\* the import target shares no name with the path of any discovered file
MatchesNoFile(target) ==
    \A i \in DOMAIN files : Range(files[i].rel_path) \cap NameTokens(target) = {}

\* C7: no node with a module: id is ever created; in the output no edge has a
\* module: target, and no imports edge stems from an import whose name matches no
\* discovered file.
C7_NoModulePlaceholder ==
    /\ \A id \in DOMAIN nodes : ~IsModuleId(id)
    /\ pc = "done" =>
          \A e \in OutEdges :
              /\ ~IsModuleId(e.target)
              /\ e.type = "imports" => ~MatchesNoFile(DropFirst(e.orig, 1))

\* a run that returned edges, where a file imported a name that matches no file
C7_Witness ==
    /\ pc = "done"
    /\ output.edges # Empty
    /\ \E i \in DOMAIN EdgesBefore :
          /\ EdgesBefore[i].type = "imports"
          /\ MatchesNoFile(DropFirst(EdgesBefore[i].orig, 1))

\* a directory name of the fixed denylist, or one that starts with a dot
Denylisted(d) == d \in ALWAYS_SKIP_DIRS \/ Head(d) = "."

\* C8: no yielded file has a denylisted or dot-prefixed directory among its
\* ancestors, at any depth; a tree whose root holds nothing but denylisted
\* directories yields no file and gives no node.
C8_SkippedDirsYieldNothing ==
    /\ \A i \in DOMAIN files :
          LET parts == Split(files[i].rel_path, "/")
          IN  \A k \in 1..(Len(parts) - 1) : ~Denylisted(parts[k])
    /\ (\A f \in tree : f.dir # Empty /\ Denylisted(f.dir[1])) =>
          files = Empty /\ DOMAIN nodes = {}

\* a run that returned, over a tree with a file in a denylisted directory below the
\* root's entries and with other files that were yielded
C8_Witness ==
    /\ pc = "done"
    /\ files # Empty
    /\ \E f \in tree : Len(f.dir) = 2 /\ Denylisted(f.dir[2]) /\ ~Denylisted(f.dir[1])

\* the file could not be read or decoded, or did not parse (SyntaxError)
FailedFile(src) ==
    \/ src.status \in {"oserror", "undecodable"}
    \/ src.parse = "syntaxerror"

\* the nodes an extractor made from the text of the file: all the nodes of that
\* file but its file node, which the generic pass makes from the descriptor
NodesFrom(rel) == { id \in DOMAIN nodes : nodes[id].file_path = rel /\ id # FileId(rel) }

EdgesFrom(rel) == { i \in DOMAIN edges : edges[i].source = FileId(rel) }

\* C9: a file that is unreadable, undecodable or (python) fails to parse with a
\* syntax error gives no node and no edge.
C9_FailedFileEmitsNothing ==
    \A rel \in DOMAIN reads :
        FailedFile(reads[rel]) => NodesFrom(rel) = {} /\ EdgesFrom(rel) = {}

\* C10: no failure of a file's read or parse leaves the per-file extraction:
\* analyze_repo is never ended by an exception.
C10_NoExceptionEscapes == pc # "raised"

(***************************************************************************)
(* collect_files and analyze_repo as functions: the lists collect_files    *)
(* can return for a tree, and what analyze_repo returns for a file list    *)
(* when reading the files gives rd.                                        *)
(***************************************************************************)
\* the file lists os.walk's loop can give from the directories still to visit
RECURSIVE WalkOrders(_, _, _)
WalkOrders(t, ign, todo) ==
    IF todo = Empty THEN {Empty}
    ELSE LET dir == Head(todo)
             kept == { d \in DirNames(t, dir) : KeepDir(t, ign, dir, d) }
         IN  UNION { { YieldFiles(t, ign, dir, filenames) \o rest :
                          rest \in WalkOrders(t, ign,
                              [i \in DOMAIN dirnames |-> Append(dir, dirnames[i])]
                              \o Tail(todo)) } :
                     dirnames \in Perms(kept), filenames \in Perms(FileNames(t, dir)) }

\* some order in which a set is iterated
SomeOrder(S) == CHOOSE p \in Perms(S) : TRUE

RECURSIVE GenericPass(_, _, _)
GenericPass(g, fs, rd) ==
    IF fs = Empty THEN g
    ELSE LET f == Head(fs)
             src == IF f.ext \in OwnedExtensions THEN [status |-> "unread"]
                    ELSE rd[f.rel_path]
             order == IF f.ext \in OwnedExtensions \/ ReadFails(src) THEN Empty
                      ELSE SomeOrder(GenericTargets(src.items))
         IN  GenericPass(GenericAnalyzeFile(g, f, src, order), Tail(fs), rd)

RECURSIVE PythonPass(_, _, _)
PythonPass(g, fs, rd) ==
    IF fs = Empty THEN g
    ELSE PythonPass(PyAnalyzeFile(g, Head(fs), rd[Head(fs).rel_path]), Tail(fs), rd)

RECURSIVE JsPass(_, _, _)
JsPass(g, fs, rd) ==
    IF fs = Empty THEN g
    ELSE LET src == rd[Head(fs).rel_path]
             order == IF ReadFails(src) THEN Empty
                      ELSE SomeOrder(JsImportTargets(src.items))
         IN  JsPass(JsAnalyzeFile(g, Head(fs), src, order), Tail(fs), rd)

\* analyze_repo's result for the file list fs (no exception raised)
Analyze(fs, rd) ==
    LET g1 == GenericPass(EmptyGraph, fs, rd)
        g2 == IF PythonFiles(fs) = Empty THEN g1
              ELSE PyResolveImports(PythonPass(g1, PythonFiles(fs), rd), PythonFiles(fs))
        g3 == IF JsFiles(fs) = Empty THEN g2
              ELSE JsResolveImports(JsPass(g2, JsFiles(fs), rd), JsFiles(fs))
    IN  ToDict(ResolveEdges(g3))

Triples(out) == { EdgeKey(out.edges[i]) : i \in DOMAIN out.edges }

\* C11: for a fixed set of files the node ids and the (source, target, type)
\* triples of the output are the same for every order in which discovery can
\* yield the files.
C11_OrderIndependent ==
    pc = "done" =>
        \A fs \in WalkOrders(tree, ignore, <<Empty>>) :
            /\ DOMAIN Analyze(fs, reads).nodes = DOMAIN output.nodes
            /\ Triples(Analyze(fs, reads)) = Triples(output)

\* the function gives what the run gave, for the order the run had
AnalyzeSameAsRun ==
    pc = "done" =>
        /\ files \in WalkOrders(tree, ignore, <<Empty>>)
        /\ DOMAIN Analyze(files, reads).nodes = DOMAIN output.nodes
        /\ Triples(Analyze(files, reads)) = Triples(output)

\* the output edges that touch a node, as source or as target
Touching(nid) ==
    { i \in DOMAIN output.edges :
         output.edges[i].source = nid \/ output.edges[i].target = nid }

\* C12: in the output every node's degree is the number of output edges that
\* touch it as source or as target, an edge from a node to itself counted once.
C12_DegreeCountsTouchingEdges ==
    pc = "done" =>
        \A nid \in DOMAIN output.nodes :
            output.nodes[nid].degree = Cardinality(Touching(nid))

\* the segments of a path with "." dropped and "x/.." collapsed
RECURSIVE Collapse(_, _)
Collapse(parts, acc) ==
    IF parts = Empty THEN acc
    ELSE LET p == Head(parts)
         IN  IF p = Empty \/ p = <<".">> THEN Collapse(Tail(parts), acc)
             ELSE IF p = <<".", ".">> /\ acc # Empty /\ acc[Len(acc)] # <<".", ".">>
                  THEN Collapse(Tail(parts), DropLast(acc, 1))
             ELSE Collapse(Tail(parts), Append(acc, p))

\* the normalized join of a directory and a relative specifier
Normalized(dir, spec) == Join(Collapse(Split(Under(dir, spec), "/"), Empty), "/")

\* the edges resolve_edges was given that stem from an import of a script file
ScriptImports ==
    { i \in DOMAIN EdgesBefore :
         /\ EdgesBefore[i].type = "imports"
         /\ IsModuleId(EdgesBefore[i].orig)
         /\ \E f \in Range(JsFiles(files)) : EdgesBefore[i].source = FileId(f.rel_path) }

SourceFile(e) == CHOOSE f \in Range(JsFiles(files)) : e.source = FileId(f.rel_path)

\* C13: the script resolver joins a relative specifier (one that starts with ".",
\* "../x" included) to the importing file's directory and normalizes the result;
\* if that path, bare or with a known extension, is the path of a discovered
\* script file the edge targets that file's id, otherwise it is left at module:.
C13_RelativeSpecifierResolved ==
    pc = "done" =>
        \A i \in ScriptImports :
            LET e == EdgesBefore[i]
                spec == DropFirst(e.orig, 1)
                found == ScriptFilesAt(Normalized(DirOf(SourceFile(e)), spec))
            IN  StartsWith(spec, <<".">>) =>
                    IF found # {}
                    THEN e.target \in { FileId(g.rel_path) : g \in found }
                    ELSE e.target = e.orig

\* the edges now in the graph that stem from a script file's import of a
\* specifier that does not start with "."
BareScriptImports ==
    { i \in DOMAIN edges :
         /\ edges[i].type = "imports"
         /\ IsModuleId(edges[i].orig)
         /\ ~StartsWith(DropFirst(edges[i].orig, 1), <<".">>)
         /\ \E f \in Range(JsFiles(files)) : edges[i].source = FileId(f.rel_path) }

\* C14: an imports edge of a script file for a specifier that does not start with
\* "." is rewritten by no pass: it targets its module: placeholder in every state
\* up to resolve_edges, which drops it, so that the output does not hold it.
C14_BareSpecifierNeverResolved ==
    /\ \A i \in BareScriptImports : edges[i].target = edges[i].orig
    /\ pc \in {"to_dict", "done"} => BareScriptImports = {}

\* a run that returned, where a script file imported a bare name that is the
\* module name of a discovered python file
C14_Witness ==
    /\ pc = "done"
    /\ \E i \in ScriptImports :
          /\ ~StartsWith(DropFirst(EdgesBefore[i].orig, 1), <<".">>)
          /\ \E f \in Range(PythonFiles(files)) :
                PyModuleOf(f.rel_path) = DropFirst(EdgesBefore[i].orig, 1)

\* the lookups the python resolver makes for the name M, in order: M in the exact
\* map, M in the suffix map, then each dotted prefix of M, longest first, in the
\* exact map and then in the suffix map
Probes(M) ==
    LET n == Len(Split(M, "."))
        prefix(k) == Join(SubSeq(Split(M, "."), 1, k), ".")
    IN  <<[map |-> "exact", key |-> M], [map |-> "suffix", key |-> M]>>
        \o [j \in 1..(2 * n) |->
               [map |-> IF j % 2 = 1 THEN "exact" ELSE "suffix",
                key |-> prefix(n - ((j - 1) \div 2))]]

TheMap(name) ==
    IF name = "exact" THEN ModuleMap(PythonFiles(files)) ELSE SuffixMap(PythonFiles(files))

\* the target the first hit gives, module:M when no lookup hits
FirstHit(M) ==
    LET probes == Probes(M)
        hits == { j \in DOMAIN probes : probes[j].key \in DOMAIN TheMap(probes[j].map) }
    IN  IF hits = {} THEN ModuleId(M)
        ELSE LET j == CHOOSE h \in hits : \A o \in hits : h <= o
             IN  TheMap(probes[j].map)[probes[j].key]

C15_ResolveStep ==
    pc = "py_resolve" =>
        /\ Len(edges') = Len(edges)
        /\ \A i \in DOMAIN edges :
              IF edges[i].type = "imports" /\ IsModuleId(edges[i].target)
              THEN edges'[i] = [edges[i] EXCEPT !.target = FirstHit(DropFirst(edges[i].target, 1))]
              ELSE edges'[i] = edges[i]

\* C15: the python resolver rewrites the target module:M of a deferred imports
\* edge to the first hit among: M in the exact module map, M in the suffix map,
\* then each dotted prefix of M from longest to shortest in the exact map and then
\* in the suffix map; with no hit the target stays module:M.
C15_FirstHitInOrder == [][C15_ResolveStep]_vars

\* the python resolver has just run and rewrote an edge by a dotted prefix: the
\* whole name is in neither map
C15_Witness ==
    /\ log # Empty
    /\ log[Len(log)].op = "py_resolve"
    /\ \E i \in DOMAIN edges :
          /\ edges[i].type = "imports"
          /\ edges[i].target # edges[i].orig
          /\ DropFirst(edges[i].orig, 1) \notin DOMAIN TheMap("exact")
          /\ DropFirst(edges[i].orig, 1) \notin DOMAIN TheMap("suffix")

\* the python files that were read and parsed
ParsedPython ==
    { f \in Range(PythonFiles(files)) :
         /\ f.rel_path \in DOMAIN reads
         /\ ~ReadFails(reads[f.rel_path])
         /\ reads[f.rel_path].parse = "ok" }

\* the import statements of a parsed file, by their place in the file
ImportStatements(f) ==
    { k \in DOMAIN reads[f.rel_path].items : reads[f.rel_path].items[k].k \in {"import", "from"} }

\* the deferred imports edges in the graph that the file's extraction emitted
ImportEdgesOf(f) ==
    { i \in DOMAIN edges :
         /\ edges[i].source = FileId(f.rel_path)
         /\ edges[i].type = "imports"
         /\ IsModuleId(edges[i].orig) }

\* C16: for every import statement of a parsed python file, absolute or relative
\* ("from . import c" included), the extractor emits a deferred imports edge from
\* the file's id to a module: target: until resolve_edges runs the graph holds one
\* such edge per statement.
C16_EveryImportEmitsEdge ==
    (pc # "raised" /\ LogOps("resolve_edges") = {}) =>
        \A f \in ParsedPython :
            Cardinality(ImportEdgesOf(f)) = Cardinality(ImportStatements(f))

\* the ids of the file nodes of a list of files
FileIds(fs) == { FileId(fs[i].rel_path) : i \in DOMAIN fs }

C17_ResolverStep ==
    /\ pc = "py_resolve" =>
          \A i \in DOMAIN edges :
              edges[i].source \notin FileIds(PythonFiles(files)) => edges'[i] = edges[i]
    /\ pc = "js_resolve" =>
          \A i \in DOMAIN edges :
              edges[i].source \notin FileIds(JsFiles(files)) => edges'[i] = edges[i]

\* C17: a resolver pass rewrites only edges whose source file is of its own
\* family: the python resolver leaves every edge of a file that is not a python
\* file as it is, the script resolver every edge of a file that is not a script file.
C17_ResolverKeepsToItsFamily == [][C17_ResolverStep]_vars

\* the output nodes that are file nodes of the path rel
FileNodesOf(rel) ==
    { nid \in DOMAIN output.nodes :
         /\ Head(nid) = "file:"
         /\ output.nodes[nid].node.file_path = rel }

\* C18: for every file discovery yielded, whatever its extension and whatever its
\* extractor made of it, the output holds exactly one node with the id
\* file:<rel_path>, and its type is what _classify_by_path gives for the file.
C18_OneFileNodePerFile ==
    pc = "done" =>
        \A i \in DOMAIN files :
            LET f == files[i]
            IN  /\ FileNodesOf(f.rel_path) = {FileId(f.rel_path)}
                /\ output.nodes[FileId(f.rel_path)].node.type
                      = _classify_by_path(f.rel_path, f.name, f.ext)

\* a run that returned, with a python or script file whose read failed, a file of
\* another language, and a file that is classified by its path
C18_Witness ==
    /\ pc = "done"
    /\ \E i \in DOMAIN files :
          _classify_by_path(files[i].rel_path, files[i].name, files[i].ext) # "file"
    /\ \E i \in DOMAIN files :
          /\ files[i].ext \in OwnedExtensions
          /\ ReadFails(reads[files[i].rel_path])
    /\ \E i \in DOMAIN files : files[i].ext \notin OwnedExtensions

\* the output nodes that are not file nodes
EntityNodes == { nid \in DOMAIN output.nodes : Head(nid) # "file:" }

\* C19: in the output every node that is not a file node has an incident edge: a
\* class_ref node an inherits edge to it, every other such node a uses or
\* endpoint_handler edge to it from a file node or a class node.
C19_EntityNodesHaveEdge ==
    pc = "done" =>
        \A nid \in EntityNodes :
            IF Head(nid) = "class_ref:"
            THEN \E e \in OutEdges : e.target = nid /\ e.type = "inherits"
            ELSE \E e \in OutEdges :
                    /\ e.target = nid
                    /\ e.type \in {"uses", "endpoint_handler"}
                    /\ Head(e.source) \in {"file:", "class:"}
                    /\ e.source \in DOMAIN output.nodes

\* a run that returned a class_ref node, an endpoint node and a class node
C19_Witness ==
    /\ pc = "done"
    /\ \E nid \in EntityNodes : Head(nid) = "class_ref:"
    /\ \E nid \in EntityNodes : Head(nid) = "endpoint:"
    /\ \E nid \in EntityNodes : Head(nid) = "class:"

====
